---- MODULE Spec2Model ----
(***************************************************************************)
(* Model of the room registry and notification mailbox of the signalling   *)
(* server in src/main.go: the gin handlers createRoom, joinRoom,           *)
(* leaveRoom, getRoomPeers, getNotifications and healthHandler, run by     *)
(* concurrent request goroutines, and the cleanupStaleConnections          *)
(* goroutine.                                                              *)
(*                                                                         *)
(* Room objects live in heap and are referred to by address, so that a     *)
(* handler can keep a *Room that the registry no longer holds.  A critical *)
(* section that holds one mutex only is one atomic step; a handler that    *)
(* keeps a mutex while it takes another one (leaveRoom, healthHandler,     *)
(* cleanupStaleConnections) holds it across steps.  time.Now().Unix() reads *)
(* the wall clock, which stands or advances between two readings unless    *)
(* the system sets it back in between.                                     *)
(*                                                                         *)
(* The variables marked "history" record what has happened (which          *)
(* memberships were acknowledged, which notifications were queued and      *)
(* returned, in which order joins were applied); no handler reads them.    *)
(*                                                                         *)
(* The JavaScript variants of the server (src/server.js and                *)
(* src/unnamed/part_000) keep the same registry without mutexes and        *)
(* without a mailbox, on a single event loop; main.go is the variant with  *)
(* concurrency and notifications and is the one modelled here.             *)
(***************************************************************************)
EXTENDS Integers, Sequences, FiniteSets, TLC

\* ---------------------------------------------------------------- bounds
NumThreads == 2
NumPeers == 2
NumCodes == 2
MaxOps == 3
MaxTicks == 2
MaxRelayOps == 3
MaxLiveOps == 4
MaxMailOps == 5
MaxRoomsOps == 5
MaxSetBackSteps == 1
MaxClockOps == 4

\* ------------------------------------------------------ program constants
StaleThreshold == 300
TickerInterval == 300
StatusOK == 200
StatusNotFound == 404
StatusBadRequest == 400
MaxCandidates == 100

TickStep == StaleThreshold

Threads == 1..NumThreads
PeerIds == 1..NumPeers
RoomCodes == 1..NumCodes
None == 0
SweeperId == NumThreads + 1

VARIABLES
    rooms,                  \* map roomCode -> *Room (key absent: not registered)
    heap,                   \* the Room objects ever allocated, by address 1..Len
    roomsMu,                \* [w: writer or None, r: set of readers]
    roomMu,                 \* per Room object: the holder of room.mu, or None
    notificationsMu,        \* the holder of notificationsMu, or None
    pendingNotifications,   \* map peerId -> sequence of Notification
    now,                    \* the wall clock as it stood when it was last read or set
                            \* back: no later reading is smaller
    setBack,                \* the seconds the wall clock has been set back in all
    lastTick,               \* the instant of the last tick the sweeper has received
    pc, req, room, existingPeers, roomSize, isEmpty, resp,   \* per request goroutine
    joinedAt,               \* createRoom / joinRoom: the value read for JoinedAt
    notified,               \* joinRoom: the existing peers the loop has gone through
    hTodo, hTotal,          \* healthHandler: rooms still to visit, totalPeers
    sweep,                  \* cleanupStaleConnections: [pc, now, todo], and the peers
                            \* the running pass has evicted (history)
    opsStarted,             \* number of requests received so far
    joinCount,              \* history: number of joins applied to rooms so far
    joinSeq,                \* history: the rank of the request's join among the joins applied
    preMembers,             \* history: membership the request found when it locked the room
    removedSince,           \* history: the inserted peer was removed again before the return
    acked,                  \* history: <<roomCode, peerId>> acknowledged and not removed since
    posted,                 \* history: <<recipient, seq>> of every notification queued
    delivered,              \* history: <<recipient, seq>> returned by some drain
    redelivered,            \* history: some drain returned an item a second time
    hSeen,                  \* history: <<rooms, peers>> totals that held during the health call
    candidates,             \* candidate relay: destination peer -> queue of envelopes
    relayOps,               \* number of relay requests received so far
    relayResp               \* answer to the last relay request

registry == <<rooms, heap, roomsMu, roomMu, notificationsMu, pendingNotifications, now,
              setBack, lastTick, pc, req, room, existingPeers, roomSize, isEmpty, resp,
              joinedAt, notified, hTodo, hTotal, sweep, opsStarted, joinCount, joinSeq,
              preMembers, removedSince, acked, posted, delivered, redelivered, hSeen>>
vars == <<rooms, heap, roomsMu, roomMu, notificationsMu, pendingNotifications, now,
          setBack, lastTick, pc, req, room, existingPeers, roomSize, isEmpty, resp,
          joinedAt, notified, hTodo, hTotal, sweep, opsStarted, joinCount, joinSeq,
          preMembers, removedSince, acked, posted, delivered, redelivered, hSeen,
          candidates, relayOps, relayResp>>

\* ------------------------------------------------------------- Go maps
Has(m, k) == k \in DOMAIN m
Put(m, k, v) == [x \in (DOMAIN m) \cup {k} |-> IF x = k THEN v ELSE m[x]]
Del(m, k) == [x \in (DOMAIN m) \ {k} |-> m[x]]
EmptyMap == [x \in {} |-> 0]

\* ------------------------------------------------------------- values
\* &PeerMetadata{PeerID: ..., JoinedAt: time.Now().Unix(), LastSeen: time.Now().Unix()}:
\* tj is the reading of the first call, tl the reading of the second.
PeerMetadata(p, tj, tl) == [PeerID |-> p, JoinedAt |-> tj, LastSeen |-> tl]
NewRoom(c) == [code |-> c, Peers |-> EmptyMap]
Notification(p, t, s, o) ==
    [Type |-> "peer_joined", PeerID |-> p, Timestamp |-> t, seq |-> s, room |-> o]

NoReq == [op |-> "none", roomCode |-> None, peerId |-> None]
NoResp == [status |-> None]

\* The seconds the wall clock shows in the runs.
Seconds == {k * TickStep : k \in 0..MaxTicks}
\* time.Now().Unix(): the wall clock as it stands, or as it has advanced since it
\* was last read or set back. After a set-back (ClockSetBack) a reading is smaller
\* than the readings taken before it.
ClockReadings == {tm \in Seconds : tm >= now}
\* The instants at which time.NewTicker(5 * time.Minute) fires.
TickInstants == {k * TickerInterval : k \in 1..MaxTicks}

RoomsMuFree == roomsMu.w = None /\ roomsMu.r = {}
RoomsMuReadable == roomsMu.w = None

\* ------------------------------------------------- pure parts of the handlers
\* createRoom: the peers of the response, every key but the requester's.
CreatePeers(r, p) == (DOMAIN r.Peers) \ {p}

\* Faulty variant: the keys are copied after the insertion instead of before it.
ExistingPeersAfterInsert(r, p) == (DOMAIN r.Peers) \cup {p}

\* joinRoom: existingPeers, every key of room.Peers before the insertion.
ExistingPeers(r, p) == DOMAIN r.Peers

\* Faulty variant: a peer that is already present only has its LastSeen refreshed.
InsertPeerKeepJoinedAt(r, p, tj, tl) ==
    IF Has(r.Peers, p)
    THEN [r EXCEPT !.Peers[p].LastSeen = tl]
    ELSE [r EXCEPT !.Peers = Put(@, p, PeerMetadata(p, tj, tl))]

\* createRoom / joinRoom: room.Peers[req.PeerID] = &PeerMetadata{...}.
InsertPeer(r, p, tj, tl) == [r EXCEPT !.Peers = Put(@, p, PeerMetadata(p, tj, tl))]

\* leaveRoom: delete(room.Peers, req.PeerID).
RemovePeer(r, p) == [r EXCEPT !.Peers = Del(@, p)]

\* getRoomPeers: peer.LastSeen = time.Now().Unix() for a requester that is a member.
ReadsClock(r, p) == p # None /\ Has(r.Peers, p)

\* Faulty variant: a requester that is not a member gets a record of its own.
HeartbeatAddsRequester(r, p, t) ==
    IF p = None THEN r
    ELSE IF Has(r.Peers, p)
         THEN [r EXCEPT !.Peers[p].LastSeen = t]
         ELSE [r EXCEPT !.Peers = Put(@, p, PeerMetadata(p, t, t))]

Heartbeat(r, p, t) ==
    IF ReadsClock(r, p)
    THEN [r EXCEPT !.Peers[p].LastSeen = t]
    ELSE r

\* Faulty variant: a queue is opened for the joiner as well, with nothing in it.
PostAllOpensJoinerQueue(pn, targets, p, ts, s, o) ==
    [q \in (DOMAIN pn) \cup targets \cup {p} |->
        IF q \in targets
        THEN Append(IF Has(pn, q) THEN pn[q] ELSE <<>>, Notification(p, ts[q], s, o))
        ELSE IF Has(pn, q) THEN pn[q] ELSE <<>>]

\* joinRoom: one Notification naming the joiner p appended to the queue of every
\* existing peer q, each with the Timestamp ts[q] read in its own iteration.
PostAll(pn, targets, p, ts, s, o) ==
    [q \in (DOMAIN pn) \cup targets |->
        IF q \in targets
        THEN Append(IF Has(pn, q) THEN pn[q] ELSE <<>>, Notification(p, ts[q], s, o))
        ELSE pn[q]]

\* joinRoom: one iteration of the loop, the notification of the join of p appended
\* to the queue of q with the Timestamp ts read in that iteration.
Post(pn, q, p, ts, s, o) == PostAll(pn, {q}, p, [x \in {q} |-> ts], s, o)

\* Faulty variant: the entry is not deleted after it has been read.
AfterDrainKeepsQueue(pn, p) == pn

\* getNotifications: the queue returned, and the map after the delete.
Drained(pn, p) == IF Has(pn, p) THEN pn[p] ELSE <<>>
AfterDrain(pn, p) == Del(pn, p)

\* Faulty variant: a peer seen exactly staleThreshold ago counts as stale.
IsStaleAtThreshold(peer, tnow) == tnow - peer.LastSeen >= StaleThreshold

\* cleanupStaleConnections: now-peer.LastSeen > staleThreshold.
IsStale(peer, tnow) == tnow - peer.LastSeen > StaleThreshold
StalePeers(r, tnow) == {p \in DOMAIN r.Peers : IsStale(r.Peers[p], tnow)}
SweepRoomPeers(r, tnow) ==
    [r EXCEPT !.Peers = [p \in (DOMAIN r.Peers) \ StalePeers(r, tnow) |-> r.Peers[p]]]

\* ------------------------------------------------------------------ Init
InitRegistry ==
    /\ rooms = EmptyMap
    /\ heap = <<>>
    /\ roomsMu = [w |-> None, r |-> {}]
    /\ roomMu = <<>>
    /\ notificationsMu = None
    /\ pendingNotifications = EmptyMap
    /\ now = 0
    /\ setBack = 0
    /\ lastTick = 0
    /\ pc = [t \in Threads |-> "idle"]
    /\ req = [t \in Threads |-> NoReq]
    /\ room = [t \in Threads |-> None]
    /\ existingPeers = [t \in Threads |-> {}]
    /\ roomSize = [t \in Threads |-> 0]
    /\ isEmpty = [t \in Threads |-> FALSE]
    /\ resp = [t \in Threads |-> NoResp]
    /\ joinedAt = [t \in Threads |-> 0]
    /\ notified = [t \in Threads |-> {}]
    /\ hTodo = [t \in Threads |-> {}]
    /\ hTotal = [t \in Threads |-> 0]
    /\ sweep = [pc |-> "idle", now |-> 0, todo |-> {}, visited |-> {}, evicted |-> {}]
    /\ opsStarted = 0
    /\ joinCount = 0
    /\ joinSeq = [t \in Threads |-> 0]
    /\ preMembers = [t \in Threads |-> {}]
    /\ removedSince = [t \in Threads |-> FALSE]
    /\ acked = {}
    /\ posted = {}
    /\ delivered = {}
    /\ redelivered = FALSE
    /\ hSeen = [t \in Threads |-> {}]

Init ==
    /\ InitRegistry
    /\ candidates = EmptyMap
    /\ relayOps = 0
    /\ relayResp = NoResp

\* ------------------------------------------------------- history bookkeeping
PostInsert == {"join_notify", "join_post", "ret"}

\* The peers P were removed from a room registered under code c.
MarkRemoved(c, P) ==
    /\ removedSince' = [t \in Threads |->
            \/ removedSince[t]
            \/ /\ pc[t] \in PostInsert
               /\ req[t].op \in {"create", "join"}
               /\ req[t].roomCode = c
               /\ req[t].peerId \in P]
    /\ acked' = acked \ {<<c, p>> : p \in P}

\* The sweeper evicted the peers P from the room registered under code c: as
\* MarkRemoved, and a leaveRoom for one of them that waits for roomsMu is overtaken.
MarkEvicted(c, P) ==
    /\ removedSince' = [t \in Threads |->
            \/ removedSince[t]
            \/ /\ pc[t] \in PostInsert
               /\ req[t].op \in {"create", "join"}
               /\ req[t].roomCode = c
               /\ req[t].peerId \in P
            \/ /\ pc[t] = "leave"
               /\ req[t].roomCode = c
               /\ req[t].peerId \in P]
    /\ acked' = acked \ {<<c, p>> : p \in P}

\* healthHandler: the pair it reports, computed on the registry at one instant.
RECURSIVE SumPeers(_, _, _)
SumPeers(rs, hp, S) ==
    IF S = {} THEN 0
    ELSE LET c == CHOOSE x \in S : TRUE
         IN Cardinality(DOMAIN hp[rs[c]].Peers) + SumPeers(rs, hp, S \ {c})
Snapshot(rs, hp) == <<Cardinality(DOMAIN rs), SumPeers(rs, hp, DOMAIN rs)>>

\* Every health call in progress sees the totals of the state being entered.
HealthObserves ==
    hSeen' = [u \in Threads |->
                IF pc[u] = "health_scan"
                THEN hSeen[u] \cup {Snapshot(rooms', heap')}
                ELSE hSeen[u]]

locals == <<room, existingPeers, roomSize, isEmpty, joinedAt, notified, hTodo, hTotal>>
joins == <<joinCount, joinSeq>>
clock == <<now, setBack, lastTick>>
locks == <<roomsMu, roomMu, notificationsMu>>
drains == <<delivered, redelivered>>
mail == <<posted, delivered, redelivered>>
removals == <<removedSince, acked>>
relay == <<candidates, relayOps, relayResp>>

\* ------------------------------------------------------------ the router
OpArgs ==
    {[op |-> o, roomCode |-> c, peerId |-> p] :
        o \in {"create", "join", "leave"}, c \in RoomCodes, p \in PeerIds}
    \cup {[op |-> "peers", roomCode |-> c, peerId |-> p] :
        c \in RoomCodes, p \in PeerIds \cup {None}}
    \cup {[op |-> "notifications", roomCode |-> None, peerId |-> p] : p \in PeerIds}
    \cup {[op |-> "health", roomCode |-> None, peerId |-> None]}

\* The requests of the runs of Spec: every handler and every peer, on one room code.
OneRoomArgs == {a \in OpArgs : a.roomCode \in {None, 1}}

\* A request arrives and gin runs its handler in a goroutine.
Start(t) ==
    /\ pc[t] = "idle"
    /\ opsStarted < MaxOps
    /\ \E a \in OneRoomArgs :
        /\ req' = [req EXCEPT ![t] = a]
        /\ pc' = [pc EXCEPT ![t] = a.op]
    /\ opsStarted' = opsStarted + 1
    /\ UNCHANGED <<rooms, heap, locks, pendingNotifications, clock, locals, resp, sweep,
                   joins, preMembers, removals, mail, hSeen, relay>>

\* c.JSON has been written: the handler returns.
Return(t) ==
    /\ pc[t] = "ret"
    /\ acked' = IF /\ req[t].op \in {"create", "join"}
                   /\ resp[t].status = StatusOK
                   /\ ~removedSince[t]
                THEN acked \cup {<<req[t].roomCode, req[t].peerId>>}
                ELSE acked
    /\ pc' = [pc EXCEPT ![t] = "idle"]
    /\ req' = [req EXCEPT ![t] = NoReq]
    /\ room' = [room EXCEPT ![t] = None]
    /\ existingPeers' = [existingPeers EXCEPT ![t] = {}]
    /\ roomSize' = [roomSize EXCEPT ![t] = 0]
    /\ isEmpty' = [isEmpty EXCEPT ![t] = FALSE]
    /\ resp' = [resp EXCEPT ![t] = NoResp]
    /\ joinedAt' = [joinedAt EXCEPT ![t] = 0]
    /\ notified' = [notified EXCEPT ![t] = {}]
    /\ preMembers' = [preMembers EXCEPT ![t] = {}]
    /\ removedSince' = [removedSince EXCEPT ![t] = FALSE]
    /\ joinSeq' = [joinSeq EXCEPT ![t] = 0]
    /\ hSeen' = [hSeen EXCEPT ![t] = {}]
    /\ UNCHANGED <<rooms, heap, locks, pendingNotifications, clock, hTodo, hTotal,
                   sweep, opsStarted, joinCount, mail, relay>>

\* ------------------------------------------------------------ createRoom
\* roomsMu.Lock(); look the room up, allocate and register it if absent; Unlock().
LookupOrCreate(t, from, to) ==
    /\ pc[t] = from
    /\ RoomsMuFree
    /\ LET c == req[t].roomCode IN
        IF Has(rooms, c)
        THEN /\ room' = [room EXCEPT ![t] = rooms[c]]
             /\ UNCHANGED <<rooms, heap, roomMu>>
        ELSE /\ heap' = Append(heap, NewRoom(c))
             /\ roomMu' = Append(roomMu, None)
             /\ rooms' = Put(rooms, c, Len(heap) + 1)
             /\ room' = [room EXCEPT ![t] = Len(heap) + 1]
    /\ pc' = [pc EXCEPT ![t] = to]
    /\ UNCHANGED <<roomsMu, notificationsMu, pendingNotifications, clock, req,
                   existingPeers, joinedAt, notified, roomSize, isEmpty, resp, hTodo,
                   hTotal, sweep, opsStarted, joins, preMembers, removals, mail, relay>>
    /\ HealthObserves

CreateLookup(t) == LookupOrCreate(t, "create", "create_lock")

\* room.mu.Lock(); the first time.Now().Unix() of the record, the one for JoinedAt.
CreateLock(t) ==
    /\ pc[t] = "create_lock"
    /\ roomMu[room[t]] = None
    /\ roomMu' = [roomMu EXCEPT ![room[t]] = t]
    /\ \E tj \in ClockReadings :
        /\ now' = tj
        /\ joinedAt' = [joinedAt EXCEPT ![t] = tj]
    /\ pc' = [pc EXCEPT ![t] = "create_insert"]
    /\ UNCHANGED <<rooms, heap, roomsMu, notificationsMu, pendingNotifications, setBack,
                   lastTick, req, room, existingPeers, roomSize, isEmpty, notified,
                   hTodo, hTotal, resp, sweep, opsStarted, joins, preMembers, removals,
                   mail, hSeen, relay>>

\* Faulty variant: createRoom notifies the other peers the way joinRoom does.
CreateInsertNotifies(t) ==
    /\ pc[t] = "create_insert"
    /\ \E tl \in ClockReadings :
        LET o == room[t]
            p == req[t].peerId
            r == InsertPeer(heap[o], p, joinedAt[t], tl)
        IN /\ now' = tl
           /\ heap' = [heap EXCEPT ![o] = r]
           /\ preMembers' = [preMembers EXCEPT ![t] = DOMAIN heap[o].Peers]
           /\ roomSize' = [roomSize EXCEPT ![t] = Cardinality(DOMAIN r.Peers)]
           /\ resp' = [resp EXCEPT ![t] =
                 [status |-> StatusOK, peers |-> CreatePeers(r, p),
                  roomSize |-> Cardinality(DOMAIN r.Peers)]]
           /\ pendingNotifications' =
                 PostAll(pendingNotifications, CreatePeers(r, p), p,
                         [q \in CreatePeers(r, p) |-> tl], 0, o)
    /\ roomMu' = [roomMu EXCEPT ![room[t]] = None]
    /\ removedSince' = [removedSince EXCEPT ![t] = FALSE]
    /\ pc' = [pc EXCEPT ![t] = "ret"]
    /\ UNCHANGED <<rooms, roomsMu, notificationsMu, setBack, lastTick, req, room,
                   existingPeers, isEmpty, joinedAt, notified, hTodo, hTotal, sweep,
                   opsStarted, joins, acked, mail, relay>>
    /\ HealthObserves

\* The second time.Now().Unix(), the one for LastSeen; the record is stored; the
\* other peers are collected; room.mu.Unlock(); respond.
CreateInsert(t) ==
    /\ pc[t] = "create_insert"
    /\ \E tl \in ClockReadings :
        LET o == room[t]
            p == req[t].peerId
            r == InsertPeer(heap[o], p, joinedAt[t], tl)
        IN /\ now' = tl
           /\ heap' = [heap EXCEPT ![o] = r]
           /\ preMembers' = [preMembers EXCEPT ![t] = DOMAIN heap[o].Peers]
           /\ roomSize' = [roomSize EXCEPT ![t] = Cardinality(DOMAIN r.Peers)]
           /\ resp' = [resp EXCEPT ![t] =
                 [status |-> StatusOK, peers |-> CreatePeers(r, p),
                  roomSize |-> Cardinality(DOMAIN r.Peers)]]
    /\ roomMu' = [roomMu EXCEPT ![room[t]] = None]
    /\ removedSince' = [removedSince EXCEPT ![t] = FALSE]
    /\ pc' = [pc EXCEPT ![t] = "ret"]
    /\ UNCHANGED <<rooms, roomsMu, notificationsMu, pendingNotifications, setBack,
                   lastTick, req, room, existingPeers, isEmpty, joinedAt, notified,
                   hTodo, hTotal, sweep, opsStarted, joins, acked, mail, relay>>
    /\ HealthObserves

\* -------------------------------------------------------------- joinRoom
\* Faulty variant: joinRoom registers a missing room the way createRoom does.
JoinLookupCreatesRoom(t) == LookupOrCreate(t, "join", "join_lock")

\* roomsMu.RLock(); look the room up; RUnlock(); 404 if it is not registered.
JoinLookup(t) ==
    /\ pc[t] = "join"
    /\ RoomsMuReadable
    /\ LET c == req[t].roomCode IN
        IF Has(rooms, c)
        THEN /\ room' = [room EXCEPT ![t] = rooms[c]]
             /\ pc' = [pc EXCEPT ![t] = "join_lock"]
             /\ UNCHANGED resp
        ELSE /\ resp' = [resp EXCEPT ![t] = [status |-> StatusNotFound]]
             /\ pc' = [pc EXCEPT ![t] = "ret"]
             /\ UNCHANGED room
    /\ UNCHANGED <<rooms, heap, locks, pendingNotifications, clock, req, existingPeers,
                   joinedAt, notified, roomSize, isEmpty, hTodo, hTotal, sweep,
                   opsStarted, joins, preMembers, removals, mail, hSeen, relay>>

\* room.mu.Lock(); copy the keys; the first time.Now().Unix() of the record, the one
\* for JoinedAt.
JoinLock(t) ==
    /\ pc[t] = "join_lock"
    /\ roomMu[room[t]] = None
    /\ roomMu' = [roomMu EXCEPT ![room[t]] = t]
    /\ existingPeers' = [existingPeers EXCEPT ![t] =
                            ExistingPeers(heap[room[t]], req[t].peerId)]
    /\ \E tj \in ClockReadings :
        /\ now' = tj
        /\ joinedAt' = [joinedAt EXCEPT ![t] = tj]
    /\ pc' = [pc EXCEPT ![t] = "join_insert"]
    /\ UNCHANGED <<rooms, heap, roomsMu, notificationsMu, pendingNotifications, setBack,
                   lastTick, req, room, roomSize, isEmpty, notified, hTodo, hTotal,
                   resp, sweep, opsStarted, joins, preMembers, removals, mail, hSeen,
                   relay>>

\* The second time.Now().Unix(), the one for LastSeen; the record is stored;
\* roomSize; room.mu.Unlock().
JoinInsert(t) ==
    /\ pc[t] = "join_insert"
    /\ \E tl \in ClockReadings :
        LET o == room[t]
            p == req[t].peerId
            r == InsertPeer(heap[o], p, joinedAt[t], tl)
        IN /\ now' = tl
           /\ heap' = [heap EXCEPT ![o] = r]
           /\ preMembers' = [preMembers EXCEPT ![t] = DOMAIN heap[o].Peers]
           /\ roomSize' = [roomSize EXCEPT ![t] = Cardinality(DOMAIN r.Peers)]
    /\ roomMu' = [roomMu EXCEPT ![room[t]] = None]
    /\ joinCount' = joinCount + 1
    /\ joinSeq' = [joinSeq EXCEPT ![t] = joinCount + 1]
    /\ removedSince' = [removedSince EXCEPT ![t] = FALSE]
    /\ pc' = [pc EXCEPT ![t] = "join_notify"]
    /\ UNCHANGED <<rooms, roomsMu, notificationsMu, pendingNotifications, setBack,
                   lastTick, req, room, existingPeers, isEmpty, resp, joinedAt,
                   notified, hTodo, hTotal, sweep, opsStarted, acked, mail, relay>>
    /\ HealthObserves

\* One iteration of the loop over existingPeers: the time is read and the
\* notification is appended to the queue of q; after the last iteration,
\* notificationsMu.Unlock() and the response.
Notify(t, q, ts) ==
    /\ now' = ts
    /\ pendingNotifications' =
            Post(pendingNotifications, q, req[t].peerId, ts, joinSeq[t], room[t])
    /\ notified' = [notified EXCEPT ![t] = @ \cup {q}]
    /\ posted' = posted \cup {<<q, joinSeq[t]>>}
    /\ IF notified[t] \cup {q} = existingPeers[t]
       THEN /\ notificationsMu' = None
            /\ resp' = [resp EXCEPT ![t] =
                    [status |-> StatusOK, peers |-> existingPeers[t],
                     roomSize |-> roomSize[t]]]
            /\ pc' = [pc EXCEPT ![t] = "ret"]
       ELSE /\ notificationsMu' = t
            /\ pc' = [pc EXCEPT ![t] = "join_post"]
            /\ UNCHANGED resp

\* notificationsMu.Lock() and the first iteration of the loop (the peers come in
\* the order of a range over a map, which is any order); with no existing peer,
\* Lock(), Unlock() and the response, and the clock is not read.
JoinNotify(t) ==
    /\ pc[t] = "join_notify"
    /\ notificationsMu = None
    /\ IF existingPeers[t] = {}
       THEN /\ resp' = [resp EXCEPT ![t] =
                    [status |-> StatusOK, peers |-> existingPeers[t],
                     roomSize |-> roomSize[t]]]
            /\ pc' = [pc EXCEPT ![t] = "ret"]
            /\ UNCHANGED <<notificationsMu, pendingNotifications, now, notified, posted>>
       ELSE \E q \in existingPeers[t] : \E ts \in ClockReadings : Notify(t, q, ts)
    /\ UNCHANGED <<rooms, heap, roomsMu, roomMu, setBack, lastTick, req, room,
                   existingPeers, roomSize, isEmpty, joinedAt, hTodo, hTotal, sweep,
                   opsStarted, joins, preMembers, removals, drains, hSeen, relay>>

\* A later iteration of the loop, with notificationsMu held.
JoinPost(t) ==
    /\ pc[t] = "join_post"
    /\ \E q \in existingPeers[t] \ notified[t] : \E ts \in ClockReadings : Notify(t, q, ts)
    /\ UNCHANGED <<rooms, heap, roomsMu, roomMu, setBack, lastTick, req, room,
                   existingPeers, roomSize, isEmpty, joinedAt, hTodo, hTotal, sweep,
                   opsStarted, joins, preMembers, removals, drains, hSeen, relay>>

\* ------------------------------------------------------------- leaveRoom
\* roomsMu.Lock() (released by the deferred Unlock); look the room up; an unknown
\* room is answered with success at once.
LeaveLookup(t) ==
    /\ pc[t] = "leave"
    /\ RoomsMuFree
    /\ LET c == req[t].roomCode IN
        IF Has(rooms, c)
        THEN /\ room' = [room EXCEPT ![t] = rooms[c]]
             /\ roomsMu' = [roomsMu EXCEPT !.w = t]
             /\ pc' = [pc EXCEPT ![t] = "leave_delete"]
             /\ UNCHANGED resp
        ELSE /\ resp' = [resp EXCEPT ![t] = [status |-> StatusOK, success |-> TRUE]]
             /\ pc' = [pc EXCEPT ![t] = "ret"]
             /\ UNCHANGED <<room, roomsMu>>
    /\ UNCHANGED <<rooms, heap, roomMu, notificationsMu, pendingNotifications, clock,
                   req, existingPeers, joinedAt, notified, roomSize, isEmpty, hTodo,
                   hTotal, sweep, opsStarted, joins, preMembers, removals, mail, hSeen,
                   relay>>

\* room.mu.Lock(); delete the peer; isEmpty := len(room.Peers) == 0.
LeaveDelete(t) ==
    /\ pc[t] = "leave_delete"
    /\ roomMu[room[t]] = None
    /\ LET o == room[t]
           r == RemovePeer(heap[o], req[t].peerId)
       IN /\ heap' = [heap EXCEPT ![o] = r]
          /\ isEmpty' = [isEmpty EXCEPT ![t] = (DOMAIN r.Peers = {})]
          /\ preMembers' = [preMembers EXCEPT ![t] = DOMAIN heap[o].Peers]
    /\ roomMu' = [roomMu EXCEPT ![room[t]] = t]
    /\ MarkRemoved(req[t].roomCode, {req[t].peerId})
    /\ pc' = [pc EXCEPT ![t] = "leave_unlock"]
    /\ UNCHANGED <<rooms, roomsMu, notificationsMu, pendingNotifications, clock, req,
                   room, existingPeers, joinedAt, notified, roomSize, resp, hTodo,
                   hTotal, sweep, opsStarted, joins, mail, relay>>
    /\ HealthObserves

\* room.mu.Unlock(), with roomsMu still held.
LeaveUnlock(t) ==
    /\ pc[t] = "leave_unlock"
    /\ roomMu' = [roomMu EXCEPT ![room[t]] = None]
    /\ pc' = [pc EXCEPT ![t] = "leave_finish"]
    /\ UNCHANGED <<rooms, heap, roomsMu, notificationsMu, pendingNotifications, clock,
                   req, locals, resp, sweep, opsStarted, joins, preMembers, removals,
                   mail, hSeen, relay>>

\* Faulty variant: the handler returns without releasing roomsMu.
LeaveFinishKeepsLock(t) ==
    /\ pc[t] = "leave_finish"
    /\ rooms' = IF isEmpty[t] THEN Del(rooms, req[t].roomCode) ELSE rooms
    /\ resp' = [resp EXCEPT ![t] = [status |-> StatusOK, success |-> TRUE]]
    /\ pc' = [pc EXCEPT ![t] = "ret"]
    /\ UNCHANGED <<heap, roomsMu, notificationsMu, roomMu, pendingNotifications, clock,
                   req, locals, sweep, opsStarted, joins, preMembers, removals, mail,
                   relay>>
    /\ HealthObserves

\* delete the room if it was found empty; respond; the deferred roomsMu.Unlock().
LeaveFinish(t) ==
    /\ pc[t] = "leave_finish"
    /\ rooms' = IF isEmpty[t] THEN Del(rooms, req[t].roomCode) ELSE rooms
    /\ roomsMu' = [roomsMu EXCEPT !.w = None]
    /\ resp' = [resp EXCEPT ![t] = [status |-> StatusOK, success |-> TRUE]]
    /\ pc' = [pc EXCEPT ![t] = "ret"]
    /\ UNCHANGED <<heap, roomMu, notificationsMu, pendingNotifications, clock, req,
                   locals, sweep, opsStarted, joins, preMembers, removals, mail, relay>>
    /\ HealthObserves

\* ---------------------------------------------------------- getRoomPeers
\* roomsMu.RLock(); look the room up; RUnlock(); 404 if it is not registered.
PeersLookup(t) ==
    /\ pc[t] = "peers"
    /\ RoomsMuReadable
    /\ LET c == req[t].roomCode IN
        IF Has(rooms, c)
        THEN /\ room' = [room EXCEPT ![t] = rooms[c]]
             /\ pc' = [pc EXCEPT ![t] = "peers_read"]
             /\ UNCHANGED resp
        ELSE /\ resp' = [resp EXCEPT ![t] = [status |-> StatusNotFound]]
             /\ pc' = [pc EXCEPT ![t] = "ret"]
             /\ UNCHANGED room
    /\ UNCHANGED <<rooms, heap, locks, pendingNotifications, clock, req, existingPeers,
                   joinedAt, notified, roomSize, isEmpty, hTodo, hTotal, sweep,
                   opsStarted, joins, preMembers, removals, mail, hSeen, relay>>

\* room.mu.Lock(); refresh the requester's LastSeen; copy the keys; Unlock(); respond.
PeersRead(t) ==
    /\ pc[t] = "peers_read"
    /\ roomMu[room[t]] = None
    /\ \E tm \in (IF ReadsClock(heap[room[t]], req[t].peerId) THEN ClockReadings ELSE {now}) :
        LET o == room[t]
            r == Heartbeat(heap[o], req[t].peerId, tm)
        IN /\ now' = tm
           /\ heap' = [heap EXCEPT ![o] = r]
           /\ resp' = [resp EXCEPT ![t] =
                 [status |-> StatusOK, peers |-> DOMAIN r.Peers,
                  roomSize |-> Cardinality(DOMAIN r.Peers)]]
    /\ pc' = [pc EXCEPT ![t] = "ret"]
    /\ UNCHANGED <<rooms, locks, pendingNotifications, setBack, lastTick, req, locals,
                   sweep, opsStarted, joins, preMembers, removals, mail, relay>>
    /\ HealthObserves

\* ------------------------------------------------------ getNotifications
\* notificationsMu.Lock(); take the queue; delete the entry; Unlock(); respond.
GetNotifications(t) ==
    /\ pc[t] = "notifications"
    /\ notificationsMu = None
    /\ LET p == req[t].peerId
           q == Drained(pendingNotifications, p)
           ids == {<<p, q[i].seq>> : i \in 1..Len(q)}
       IN /\ pendingNotifications' = AfterDrain(pendingNotifications, p)
          /\ resp' = [resp EXCEPT ![t] = [status |-> StatusOK, notifications |-> q]]
          /\ delivered' = delivered \cup ids
          /\ redelivered' = (redelivered \/ ids \cap delivered # {})
    /\ pc' = [pc EXCEPT ![t] = "ret"]
    /\ UNCHANGED <<rooms, heap, locks, clock, req, locals, sweep, opsStarted, joins,
                   preMembers, removals, posted, hSeen, relay>>

\* --------------------------------------------------------- healthHandler
\* roomsMu.RLock(); totalPeers := 0; start ranging over rooms.
HealthLock(t) ==
    /\ pc[t] = "health"
    /\ RoomsMuReadable
    /\ roomsMu' = [roomsMu EXCEPT !.r = @ \cup {t}]
    /\ hTodo' = [hTodo EXCEPT ![t] = DOMAIN rooms]
    /\ hTotal' = [hTotal EXCEPT ![t] = 0]
    /\ pc' = [pc EXCEPT ![t] = "health_scan"]
    /\ hSeen' = [hSeen EXCEPT ![t] = {Snapshot(rooms, heap)}]
    /\ UNCHANGED <<rooms, heap, roomMu, notificationsMu, pendingNotifications, clock,
                   req, room, existingPeers, joinedAt, notified, roomSize, isEmpty,
                   resp, sweep, opsStarted, joins, preMembers, removals, mail, relay>>

\* Faulty variant: the count of the room replaces the running total.
AddPeersOverwrites(total, r) == Cardinality(DOMAIN r.Peers)

\* totalPeers += len(room.Peers).
AddPeers(total, r) == total + Cardinality(DOMAIN r.Peers)

\* One iteration: room.mu.RLock(); totalPeers += len(room.Peers); RUnlock().
HealthRoom(t) ==
    /\ pc[t] = "health_scan"
    /\ \E c \in hTodo[t] :
        /\ roomMu[rooms[c]] = None
        /\ hTotal' = [hTotal EXCEPT ![t] = AddPeers(@, heap[rooms[c]])]
        /\ hTodo' = [hTodo EXCEPT ![t] = @ \ {c}]
    /\ UNCHANGED <<rooms, heap, locks, pendingNotifications, clock, pc, req, room,
                   existingPeers, joinedAt, notified, roomSize, isEmpty, resp, sweep,
                   opsStarted, joins, preMembers, removals, mail, hSeen, relay>>

\* roomCount := len(rooms); roomsMu.RUnlock(); respond.
HealthFinish(t) ==
    /\ pc[t] = "health_scan"
    /\ hTodo[t] = {}
    /\ roomsMu' = [roomsMu EXCEPT !.r = @ \ {t}]
    /\ resp' = [resp EXCEPT ![t] =
            [status |-> StatusOK, rooms |-> Cardinality(DOMAIN rooms),
             totalPeers |-> hTotal[t]]]
    /\ hTotal' = [hTotal EXCEPT ![t] = 0]
    /\ pc' = [pc EXCEPT ![t] = "ret"]
    /\ UNCHANGED <<rooms, heap, roomMu, notificationsMu, pendingNotifications, clock,
                   req, room, existingPeers, joinedAt, notified, roomSize, isEmpty,
                   hTodo, sweep, opsStarted, joins, preMembers, removals, mail, hSeen,
                   relay>>

\* ----------------------------------------------- cleanupStaleConnections
\* The next tick is received from ticker.C; now := time.Now().Unix(), read at the
\* instant of the tick or later. The ticker counts the time that has passed since
\* the start, which is what the wall clock shows plus what it was set back.
SweepWake ==
    /\ sweep.pc = "idle"
    /\ lastTick + TickerInterval \in TickInstants
    /\ \E tm \in ClockReadings :
        /\ tm + setBack >= lastTick + TickerInterval
        /\ now' = tm
        /\ sweep' = [pc |-> "lock", now |-> tm, todo |-> {}, visited |-> {}, evicted |-> {}]
    /\ lastTick' = lastTick + TickerInterval
    /\ UNCHANGED <<rooms, heap, locks, pendingNotifications, setBack, pc, req, locals,
                   resp, opsStarted, joins, preMembers, removals, mail, hSeen, relay>>

\* roomsMu.Lock(); start ranging over rooms.
SweepLock ==
    /\ sweep.pc = "lock"
    /\ RoomsMuFree
    /\ roomsMu' = [roomsMu EXCEPT !.w = SweeperId]
    /\ sweep' = [sweep EXCEPT !.pc = "scan", !.todo = DOMAIN rooms]
    /\ UNCHANGED <<rooms, heap, roomMu, notificationsMu, pendingNotifications, clock,
                   pc, req, locals, resp, opsStarted, joins, preMembers, removals, mail,
                   hSeen, relay>>

\* One iteration: room.mu.Lock(); delete the stale peers; delete the room if it
\* has no peer left; room.mu.Unlock().
SweepRoom ==
    /\ sweep.pc = "scan"
    /\ \E c \in sweep.todo :
        LET o == rooms[c]
            r == SweepRoomPeers(heap[o], sweep.now)
        IN /\ roomMu[o] = None
           /\ heap' = [heap EXCEPT ![o] = r]
           /\ rooms' = IF DOMAIN r.Peers = {} THEN Del(rooms, c) ELSE rooms
           /\ MarkEvicted(c, StalePeers(heap[o], sweep.now))
           /\ sweep' = [sweep EXCEPT !.todo = @ \ {c},
                                     !.visited = @ \cup {c},
                                     !.evicted = @ \cup
                                        {<<c, p>> : p \in StalePeers(heap[o], sweep.now)}]
    /\ UNCHANGED <<locks, pendingNotifications, clock, pc, req, locals, resp,
                   opsStarted, joins, preMembers, mail, relay>>
    /\ HealthObserves

\* The range is over: roomsMu.Unlock(); wait for the next tick.
SweepUnlock ==
    /\ sweep.pc = "scan"
    /\ sweep.todo = {}
    /\ roomsMu' = [roomsMu EXCEPT !.w = None]
    /\ sweep' = [pc |-> "idle", now |-> 0, todo |-> {}, visited |-> {}, evicted |-> {}]
    /\ UNCHANGED <<rooms, heap, roomMu, notificationsMu, pendingNotifications, clock,
                   pc, req, locals, resp, opsStarted, joins, preMembers, removals, mail,
                   hSeen, relay>>

\* -------------------------------------------------------- the wall clock
\* The system (its administrator, its time synchronisation) sets the wall clock
\* back by d seconds, at any moment: the clock has advanced by a seconds, read by
\* nobody, since it was last read or set back.
ClockSetBack ==
    /\ \E a \in Seconds, d \in Seconds \ {0} :
        /\ now + a \in Seconds
        /\ d <= now + a
        /\ setBack + d <= MaxSetBackSteps * TickStep
        /\ now' = now + a - d
        /\ setBack' = setBack + d
    /\ UNCHANGED <<rooms, heap, locks, pendingNotifications, lastTick, pc, req, locals,
                   resp, sweep, opsStarted, joins, preMembers, removals, mail, hSeen,
                   relay>>

\* ------------------------------------------------------------------ Next
\* The runs of Spec: every handler and the sweeper, the wall clock left alone.
Next ==
    \/ \E t \in Threads : Start(t)
    \/ \E t \in Threads : Return(t)
    \/ \E t \in Threads : CreateLookup(t)
    \/ \E t \in Threads : CreateLock(t)
    \/ \E t \in Threads : CreateInsert(t)
    \/ \E t \in Threads : JoinLookup(t)
    \/ \E t \in Threads : JoinLock(t)
    \/ \E t \in Threads : JoinInsert(t)
    \/ \E t \in Threads : JoinNotify(t)
    \/ \E t \in Threads : JoinPost(t)
    \/ \E t \in Threads : LeaveLookup(t)
    \/ \E t \in Threads : LeaveDelete(t)
    \/ \E t \in Threads : LeaveUnlock(t)
    \/ \E t \in Threads : LeaveFinish(t)
    \/ \E t \in Threads : PeersLookup(t)
    \/ \E t \in Threads : PeersRead(t)
    \/ \E t \in Threads : GetNotifications(t)
    \/ \E t \in Threads : HealthLock(t)
    \/ \E t \in Threads : HealthRoom(t)
    \/ \E t \in Threads : HealthFinish(t)
    \/ SweepWake
    \/ SweepLock
    \/ SweepRoom
    \/ SweepUnlock

Spec == Init /\ [][Next]_vars

\* ------------------------------------------------------- several rooms
\* The runs over several rooms start where two requests have been answered at time
\* 0, createRoom by peer 1 on room code 1 and on room code 2, and where the sweeper
\* has made its first pass, at time 300, and has found nobody stale. They go on with
\* createRoom, joinRoom and leaveRoom by peer 2, leaveRoom by peer 1 and the health
\* check, on every room code, and with the second pass of the sweeper, MaxRoomsOps
\* counting the two requests that were answered.
InitRooms ==
    /\ rooms = [c \in {1, 2} |-> c]
    /\ heap = [c \in {1, 2} |->
                [code |-> c, Peers |-> [p \in {1} |-> PeerMetadata(p, 0, 0)]]]
    /\ roomMu = <<None, None>>
    /\ pendingNotifications = EmptyMap
    /\ opsStarted = 2
    /\ joinCount = 0
    /\ acked = {<<1, 1>>, <<2, 1>>}
    /\ posted = {}
    /\ roomsMu = [w |-> None, r |-> {}]
    /\ notificationsMu = None
    /\ now = TickerInterval
    /\ setBack = 0
    /\ lastTick = TickerInterval
    /\ pc = [t \in Threads |-> "idle"]
    /\ req = [t \in Threads |-> NoReq]
    /\ room = [t \in Threads |-> None]
    /\ existingPeers = [t \in Threads |-> {}]
    /\ roomSize = [t \in Threads |-> 0]
    /\ isEmpty = [t \in Threads |-> FALSE]
    /\ resp = [t \in Threads |-> NoResp]
    /\ joinedAt = [t \in Threads |-> 0]
    /\ notified = [t \in Threads |-> {}]
    /\ hTodo = [t \in Threads |-> {}]
    /\ hTotal = [t \in Threads |-> 0]
    /\ sweep = [pc |-> "idle", now |-> 0, todo |-> {}, visited |-> {}, evicted |-> {}]
    /\ joinSeq = [t \in Threads |-> 0]
    /\ preMembers = [t \in Threads |-> {}]
    /\ removedSince = [t \in Threads |-> FALSE]
    /\ delivered = {}
    /\ redelivered = FALSE
    /\ hSeen = [t \in Threads |-> {}]
    /\ candidates = EmptyMap
    /\ relayOps = 0
    /\ relayResp = NoResp

RoomsArgs ==
    {a \in OpArgs : /\ a.op \in {"create", "join", "leave", "health"}
                    /\ (a.peerId \in {None, 2} \/ a.op = "leave")}

StartRooms(t) ==
    /\ pc[t] = "idle"
    /\ opsStarted < MaxRoomsOps
    /\ \E a \in RoomsArgs :
        /\ req' = [req EXCEPT ![t] = a]
        /\ pc' = [pc EXCEPT ![t] = a.op]
    /\ opsStarted' = opsStarted + 1
    /\ UNCHANGED <<rooms, heap, locks, pendingNotifications, clock, locals, resp, sweep,
                   joins, preMembers, removals, mail, hSeen, relay>>

NextRooms ==
    \/ \E t \in Threads : StartRooms(t)
    \/ \E t \in Threads : Return(t)
    \/ \E t \in Threads : CreateLookup(t)
    \/ \E t \in Threads : CreateLock(t)
    \/ \E t \in Threads : CreateInsert(t)
    \/ \E t \in Threads : JoinLookup(t)
    \/ \E t \in Threads : JoinLock(t)
    \/ \E t \in Threads : JoinInsert(t)
    \/ \E t \in Threads : JoinNotify(t)
    \/ \E t \in Threads : JoinPost(t)
    \/ \E t \in Threads : LeaveLookup(t)
    \/ \E t \in Threads : LeaveDelete(t)
    \/ \E t \in Threads : LeaveUnlock(t)
    \/ \E t \in Threads : LeaveFinish(t)
    \/ \E t \in Threads : HealthLock(t)
    \/ \E t \in Threads : HealthRoom(t)
    \/ \E t \in Threads : HealthFinish(t)
    \/ SweepWake
    \/ SweepLock
    \/ SweepRoom
    \/ SweepUnlock

SpecRooms == InitRooms /\ [][NextRooms]_vars

\* ------------------------------------------------------ fair scheduling
\* The runs checked for progress start where two requests have been answered at
\* time 0, createRoom by peer 1 and joinRoom by peer 2 on room code 1: the room holds
\* both peers and the first has the notification of the join of the second. They go
\* on with the requests of Spec, MaxLiveOps counting the two that were answered.
InitLive ==
    /\ rooms = Put(EmptyMap, 1, 1)
    /\ heap = <<[code |-> 1, Peers |-> [p \in {1, 2} |-> PeerMetadata(p, 0, 0)]]>>
    /\ roomsMu = [w |-> None, r |-> {}]
    /\ roomMu = <<None>>
    /\ notificationsMu = None
    /\ pendingNotifications = Put(EmptyMap, 1, <<Notification(2, 0, 1, 1)>>)
    /\ now = 0
    /\ setBack = 0
    /\ lastTick = 0
    /\ pc = [t \in Threads |-> "idle"]
    /\ req = [t \in Threads |-> NoReq]
    /\ room = [t \in Threads |-> None]
    /\ existingPeers = [t \in Threads |-> {}]
    /\ roomSize = [t \in Threads |-> 0]
    /\ isEmpty = [t \in Threads |-> FALSE]
    /\ resp = [t \in Threads |-> NoResp]
    /\ joinedAt = [t \in Threads |-> 0]
    /\ notified = [t \in Threads |-> {}]
    /\ hTodo = [t \in Threads |-> {}]
    /\ hTotal = [t \in Threads |-> 0]
    /\ sweep = [pc |-> "idle", now |-> 0, todo |-> {}, visited |-> {}, evicted |-> {}]
    /\ opsStarted = 2
    /\ joinCount = 1
    /\ joinSeq = [t \in Threads |-> 0]
    /\ preMembers = [t \in Threads |-> {}]
    /\ removedSince = [t \in Threads |-> FALSE]
    /\ acked = {<<1, 1>>, <<1, 2>>}
    /\ posted = {<<1, 1>>}
    /\ delivered = {}
    /\ redelivered = FALSE
    /\ hSeen = [t \in Threads |-> {}]
    /\ candidates = EmptyMap
    /\ relayOps = 0
    /\ relayResp = NoResp

LiveArgs == {a \in OneRoomArgs : a.peerId \in {None, 1}}

StartLive(t) ==
    /\ pc[t] = "idle"
    /\ opsStarted < MaxLiveOps
    /\ \E a \in LiveArgs :
        /\ req' = [req EXCEPT ![t] = a]
        /\ pc' = [pc EXCEPT ![t] = a.op]
    /\ opsStarted' = opsStarted + 1
    /\ UNCHANGED <<rooms, heap, locks, pendingNotifications, clock, locals, resp, sweep,
                   joins, preMembers, removals, mail, hSeen, relay>>

\* The next step of the handler that runs in goroutine t.
Step(t) ==
    \/ Return(t)
    \/ CreateLookup(t) \/ CreateLock(t) \/ CreateInsert(t)
    \/ JoinLookup(t) \/ JoinLock(t) \/ JoinInsert(t) \/ JoinNotify(t) \/ JoinPost(t)
    \/ LeaveLookup(t) \/ LeaveDelete(t) \/ LeaveUnlock(t) \/ LeaveFinish(t)
    \/ PeersLookup(t) \/ PeersRead(t)
    \/ GetNotifications(t)
    \/ HealthLock(t) \/ HealthRoom(t) \/ HealthFinish(t)

\* The next step of a sweep pass that the ticker has started.
SweepStep == SweepLock \/ SweepRoom \/ SweepUnlock

NextLive ==
    \/ \E t \in Threads : StartLive(t)
    \/ \E t \in Threads : Step(t)
    \/ SweepWake
    \/ SweepStep

\* The Go scheduler runs every goroutine that can run: a handler, or a sweep pass,
\* whose next step stays possible takes it.
FairSpec ==
    /\ InitLive
    /\ [][NextLive]_vars
    /\ \A t \in Threads : WF_vars(Step(t))
    /\ WF_vars(SweepStep)

\* ------------------------------------------------------ a clock set back
\* The runs in which the wall clock is set back start as the runs checked for
\* progress do, with both peers in the room at time 0: the handlers that read the
\* clock into a peer's record, createRoom, joinRoom and getRoomPeers, called by
\* peer 1, and the sweeper, MaxClockOps counting the two requests that were answered.
ClockArgs == {a \in LiveArgs : a.op \in {"create", "join", "peers"}}

StartClock(t) ==
    /\ pc[t] = "idle"
    /\ opsStarted < MaxClockOps
    /\ \E a \in ClockArgs :
        /\ req' = [req EXCEPT ![t] = a]
        /\ pc' = [pc EXCEPT ![t] = a.op]
    /\ opsStarted' = opsStarted + 1
    /\ UNCHANGED <<rooms, heap, locks, pendingNotifications, clock, locals, resp, sweep,
                   joins, preMembers, removals, mail, hSeen, relay>>

NextClock ==
    \/ \E t \in Threads : StartClock(t)
    \/ \E t \in Threads : Return(t)
    \/ \E t \in Threads : CreateLookup(t)
    \/ \E t \in Threads : CreateLock(t)
    \/ \E t \in Threads : CreateInsert(t)
    \/ \E t \in Threads : JoinLookup(t)
    \/ \E t \in Threads : JoinLock(t)
    \/ \E t \in Threads : JoinInsert(t)
    \/ \E t \in Threads : JoinNotify(t)
    \/ \E t \in Threads : JoinPost(t)
    \/ \E t \in Threads : PeersLookup(t)
    \/ \E t \in Threads : PeersRead(t)
    \/ SweepWake
    \/ SweepLock
    \/ SweepRoom
    \/ SweepUnlock
    \/ ClockSetBack

SpecClock == InitLive /\ [][NextClock]_vars

\* ------------------------------------------------------------ the mailbox
\* The runs on the mailbox start as the runs checked for progress do, with both
\* peers in the room and one notification queued: joinRoom and getNotifications
\* for every peer, MaxMailOps counting the two requests that were answered.
MailArgs == {a \in OneRoomArgs : a.op \in {"join", "notifications"}}

StartMail(t) ==
    /\ pc[t] = "idle"
    /\ opsStarted < MaxMailOps
    /\ \E a \in MailArgs :
        /\ req' = [req EXCEPT ![t] = a]
        /\ pc' = [pc EXCEPT ![t] = a.op]
    /\ opsStarted' = opsStarted + 1
    /\ UNCHANGED <<rooms, heap, locks, pendingNotifications, clock, locals, resp, sweep,
                   joins, preMembers, removals, mail, hSeen, relay>>

NextMail ==
    \/ \E t \in Threads : StartMail(t)
    \/ \E t \in Threads : Return(t)
    \/ \E t \in Threads : JoinLookup(t)
    \/ \E t \in Threads : JoinLock(t)
    \/ \E t \in Threads : JoinInsert(t)
    \/ \E t \in Threads : JoinNotify(t)
    \/ \E t \in Threads : JoinPost(t)
    \/ \E t \in Threads : GetNotifications(t)

SpecMail == InitLive /\ [][NextMail]_vars

\* ------------------------------------------------------- candidate relay
CandidateEnvelope(f, c, t) == [from |-> f, candidate |-> c, timestamp |-> t]

\* Faulty variant: the queue is not capped.
EnqueueUnbounded(cq, to, env) ==
    Put(cq, to, Append(IF Has(cq, to) THEN cq[to] ELSE <<>>, env))

\* enqueue: append; once the length exceeds the bound, the oldest entry is dropped.
Enqueue(cq, to, env) ==
    LET q == Append(IF Has(cq, to) THEN cq[to] ELSE <<>>, env)
    IN Put(cq, to, IF Len(q) > MaxCandidates THEN Tail(q) ELSE q)

\* The queue left by n earlier sendCandidate calls to one peer, none drained.
FillLevels == {0, MaxCandidates - 1, MaxCandidates}
Filled(n) == [k \in 1..n |-> CandidateEnvelope((k % NumPeers) + 1, k, 0)]

InitRelay ==
    /\ InitRegistry
    /\ \E lv \in [PeerIds -> FillLevels] :
            candidates = [q \in {x \in PeerIds : lv[x] > 0} |-> Filled(lv[q])]
    /\ relayOps = 0
    /\ relayResp = NoResp

\* sendCandidate: enqueue for the destination; the sender is always told success.
SendCandidate(f, to) ==
    /\ relayOps < MaxRelayOps
    /\ candidates' = Enqueue(candidates, to,
                        CandidateEnvelope(f, MaxCandidates + relayOps + 1, now))
    /\ relayResp' = [status |-> StatusOK, success |-> TRUE]
    /\ relayOps' = relayOps + 1
    /\ UNCHANGED registry

\* pollCandidates: return the peer's queue and clear it.
PollCandidates(p) ==
    /\ relayOps < MaxRelayOps
    /\ relayResp' = [status |-> StatusOK,
                     candidates |-> IF Has(candidates, p) THEN candidates[p] ELSE <<>>]
    /\ candidates' = Del(candidates, p)
    /\ relayOps' = relayOps + 1
    /\ UNCHANGED registry

NextRelay ==
    \/ \E f, to \in PeerIds : SendCandidate(f, to)
    \/ \E p \in PeerIds : PollCandidates(p)

SpecRelay == InitRelay /\ [][NextRelay]_vars

\* ------------------------------------------------- requests as they arrive
\* A request body: either it is not a JSON object of strings, or it is one and a
\* field that is absent (or "") is bound to the zero value "".
\* The bodies of the runs name one room code.
Bodies ==
    {[parses |-> TRUE, roomCode |-> c, peerId |-> p] :
        c \in {None, 1}, p \in PeerIds \cup {None}}
    \cup {[parses |-> FALSE, roomCode |-> None, peerId |-> None]}

\* c.ShouldBindJSON(&req): err == nil; the struct fields carry no binding tag.
ShouldBindJSON(body) == body.parses

\* A createRoom, joinRoom or leaveRoom request arrives with some body; the handler
\* answers 400 if the body cannot be bound and goes on with the bound fields otherwise.
StartRaw(t) ==
    /\ pc[t] = "idle"
    /\ opsStarted < MaxOps
    /\ \E o \in {"create", "join", "leave"}, body \in Bodies :
        /\ req' = [req EXCEPT ![t] =
                [op |-> o, roomCode |-> body.roomCode, peerId |-> body.peerId]]
        /\ IF ShouldBindJSON(body)
           THEN pc' = [pc EXCEPT ![t] = o] /\ UNCHANGED resp
           ELSE /\ pc' = [pc EXCEPT ![t] = "ret"]
                /\ resp' = [resp EXCEPT ![t] = [status |-> StatusBadRequest]]
    /\ opsStarted' = opsStarted + 1
    /\ UNCHANGED <<rooms, heap, locks, pendingNotifications, clock, locals, sweep,
                   joins, preMembers, removals, mail, hSeen, relay>>

NextRaw ==
    \/ \E t \in Threads : StartRaw(t)
    \/ \E t \in Threads : Return(t)
    \/ \E t \in Threads : CreateLookup(t)
    \/ \E t \in Threads : CreateLock(t)
    \/ \E t \in Threads : CreateInsert(t)
    \/ \E t \in Threads : JoinLookup(t)
    \/ \E t \in Threads : JoinLock(t)
    \/ \E t \in Threads : JoinInsert(t)
    \/ \E t \in Threads : JoinNotify(t)
    \/ \E t \in Threads : JoinPost(t)
    \/ \E t \in Threads : LeaveLookup(t)
    \/ \E t \in Threads : LeaveDelete(t)
    \/ \E t \in Threads : LeaveUnlock(t)
    \/ \E t \in Threads : LeaveFinish(t)

SpecRaw == Init /\ [][NextRaw]_vars

\* ================================================================ claims
Quiescent == (\A t \in Threads : pc[t] = "idle") /\ sweep.pc \in {"idle", "lock"}
Objects == 1..Len(heap)
Registered(o) == Has(rooms, heap[o].code) /\ rooms[heap[o].code] = o
Members(o) == DOMAIN heap[o].Peers
InMailbox ==
    UNION {{<<q, pendingNotifications[q][i].seq>> : i \in 1..Len(pendingNotifications[q])} :
                q \in DOMAIN pendingNotifications}
\* The request of t is a createRoom or joinRoom that was answered with success.
Admitted(t) ==
    pc[t] = "ret" /\ req[t].op \in {"create", "join"} /\ resp[t].status = StatusOK

\* C1: whenever no request and no sweep pass is in progress, a room is registered
\* under its code if and only if it holds at least one peer.
C1_RegisteredIffNonEmpty ==
    Quiescent => \A o \in Objects : Registered(o) <=> Members(o) # {}

\* C2: a membership acknowledged by createRoom or joinRoom, and not removed since by
\* a leaveRoom for that peer or by an eviction of that peer, is a membership of the
\* room registered under that code.
C2_AckedMembershipKept ==
    \A m \in acked : Has(rooms, m[1]) /\ Has(heap[rooms[m[1]]].Peers, m[2])

\* C3: a joinRoom that finds its room code unregistered answers RoomNotFound and
\* changes neither the registry, nor any room, nor any mailbox; createRoom always
\* answers with success; and the leaveRoom that removes the last peer of a room
\* unregisters the code, so that a later joinRoom finds it unregistered.
C3_JoinUnknownRoomFails ==
    /\ [][\A t \in Threads :
            /\ (pc[t] = "join" /\ pc'[t] # "join" /\ ~Has(rooms, req[t].roomCode)) =>
                    /\ pc'[t] = "ret"
                    /\ resp'[t] = [status |-> StatusNotFound]
                    /\ UNCHANGED <<rooms, heap, pendingNotifications>>
            /\ (pc[t] = "leave_finish" /\ pc'[t] = "ret" /\ Members(room[t]) = {}) =>
                    ~Has(rooms', req[t].roomCode)]_vars
    /\ [](\A t \in Threads :
            (pc[t] = "ret" /\ req[t].op = "create") => resp[t].status = StatusOK)

\* C3 witness: a joinRoom was answered RoomNotFound for a code whose room had been
\* created and has been unregistered again.
C3_Witness ==
    \E t \in Threads :
        /\ pc[t] = "ret" /\ req[t].op = "join" /\ resp[t].status = StatusNotFound
        /\ \E o \in Objects : heap[o].code = req[t].roomCode /\ Members(o) = {}
        /\ ~Has(rooms, req[t].roomCode)

\* C4: createRoom and joinRoom answer with the membership found before the
\* insertion minus the requester, and with the size after the insertion.
C4_PeersExcludeRequester ==
    \A t \in Threads :
        Admitted(t) =>
            /\ resp[t].peers = preMembers[t] \ {req[t].peerId}
            /\ resp[t].roomSize = Cardinality(preMembers[t] \cup {req[t].peerId})

\* C5: joinRoom goes once through the peers that were members when the join was
\* applied: each step of its loop appends exactly one peer_joined naming the joiner
\* to the queue of one member it has not served yet and leaves every other queue as
\* it was; the answer comes with the step that serves the last member, or at once
\* if there was none.
C5_OneNotificationPerMember ==
    [][\A t \in Threads :
        (/\ pc[t] \in {"join_notify", "join_post"}
         /\ (pc'[t] # pc[t] \/ notified'[t] # notified[t])) =>
            /\ existingPeers[t] = preMembers[t]
            /\ pc[t] = "join_notify" => notified[t] = {}
            /\ IF preMembers[t] = {}
               THEN UNCHANGED pendingNotifications /\ pc'[t] = "ret"
               ELSE \E q \in preMembers[t] \ notified[t] :
                    /\ notified'[t] = notified[t] \cup {q}
                    /\ DOMAIN pendingNotifications' = (DOMAIN pendingNotifications) \cup {q}
                    /\ \A x \in DOMAIN pendingNotifications' :
                         LET old == IF Has(pendingNotifications, x)
                                    THEN pendingNotifications[x] ELSE <<>>
                             new == pendingNotifications'[x]
                         IN IF x = q
                            THEN /\ Len(new) = Len(old) + 1
                                 /\ SubSeq(new, 1, Len(old)) = old
                                 /\ new[Len(new)].Type = "peer_joined"
                                 /\ new[Len(new)].PeerID = req[t].peerId
                            ELSE new = old
                    /\ pc'[t] = "ret" <=> notified'[t] = preMembers[t]
            /\ pc'[t] = "ret" => resp'[t].status = StatusOK]_vars

\* C5 witness: a joinRoom has answered after queueing its notification for another
\* peer, which was a member when the join was applied.
C5_Witness ==
    \E t \in Threads :
        /\ Admitted(t) /\ req[t].op = "join"
        /\ \E q \in preMembers[t] \ {req[t].peerId} :
            /\ Has(pendingNotifications, q)
            /\ \E i \in 1..Len(pendingNotifications[q]) :
                /\ pendingNotifications[q][i].PeerID = req[t].peerId
                /\ pendingNotifications[q][i].seq = joinSeq[t]

\* C6: a drain returns the peer's whole queue in order (the empty sequence if the
\* peer has no queue) and removes the entry, leaving the other queues alone; no
\* notification is ever returned twice, and every notification queued is either
\* still in its queue or was returned by a drain, never both.
C6_DrainExactlyOnce ==
    /\ [][\A t \in Threads :
            (pc[t] = "notifications" /\ pc'[t] = "ret") =>
                /\ resp'[t].status = StatusOK
                /\ resp'[t].notifications =
                        (IF Has(pendingNotifications, req[t].peerId)
                         THEN pendingNotifications[req[t].peerId] ELSE <<>>)
                /\ DOMAIN pendingNotifications' =
                        (DOMAIN pendingNotifications) \ {req[t].peerId}
                /\ \A q \in DOMAIN pendingNotifications' :
                        pendingNotifications'[q] = pendingNotifications[q]]_vars
    /\ [](/\ ~redelivered
          /\ delivered \cap InMailbox = {}
          /\ posted = delivered \cup InMailbox)

\* C6 witness: two drains of peer 1, whose queue held a notification from the start
\* and has received another one since, have been answered one after the other: the
\* first with the two notifications, in the order in which they were queued, the
\* second with the empty sequence; and the peer has no queue.
C6_Witness ==
    \E t, u \in Threads :
        /\ t # u
        /\ pc[t] = "ret"
        /\ req[t] = [op |-> "notifications", roomCode |-> None, peerId |-> 1]
        /\ pc[u] = "ret" /\ req[u] = req[t]
        /\ Len(resp[t].notifications) = 2
        /\ resp[t].notifications[1].seq = 1
        /\ resp[t].notifications[2].seq > 1
        /\ resp[u].notifications = <<>>
        /\ ~Has(pendingNotifications, 1)

\* C7: one iteration of a sweep pass removes from the room exactly the peers whose
\* LastSeen lies more than the staleness threshold before the pass's now, keeps the
\* records of the others untouched, and unregisters the room if and only if no peer
\* is left in it.
C7_SweepRemovesExactlyStale ==
    [][\A c \in RoomCodes :
        (sweep.pc = "scan" /\ c \in sweep.todo /\ c \notin sweep'.todo) =>
            LET o == rooms[c] IN
            /\ \A p \in Members(o) :
                IF heap[o].Peers[p].LastSeen + StaleThreshold < sweep.now
                THEN ~Has(heap'[o].Peers, p)
                ELSE Has(heap'[o].Peers, p) /\ heap'[o].Peers[p] = heap[o].Peers[p]
            /\ DOMAIN heap'[o].Peers \subseteq Members(o)
            /\ Has(rooms', c) <=> DOMAIN heap'[o].Peers # {}
            /\ Has(rooms', c) => rooms'[c] = o]_vars

\* C7 witness: a pass has evicted a stale peer, and a room it has visited still
\* holds a peer that joined longer ago than the threshold and whose LastSeen lies
\* within the threshold of the pass's now.
C7_Witness ==
    /\ sweep.pc = "scan"
    /\ sweep.evicted # {}
    /\ \E c \in (DOMAIN rooms) \ sweep.todo :
        \E p \in Members(rooms[c]) :
            /\ heap[rooms[c]].Peers[p].JoinedAt + StaleThreshold < sweep.now
            /\ heap[rooms[c]].Peers[p].LastSeen + StaleThreshold >= sweep.now

\* C8: leaveRoom answers with success, and a leaveRoom whose room is not registered
\* or whose peer is not a member of the room (a repeated leaveRoom among them)
\* changes neither the registry, nor the room, nor any mailbox.
C8_LeaveOfNonMemberChangesNothing ==
    [][\A t \in Threads :
        /\ (pc[t] = "leave" /\ pc'[t] = "ret") =>
                /\ resp'[t].success
                /\ UNCHANGED <<rooms, heap, pendingNotifications>>
        /\ (pc[t] = "leave_delete" /\ pc'[t] = "leave_unlock"
                /\ req[t].peerId \notin Members(room[t])) =>
                UNCHANGED <<rooms, heap, pendingNotifications>>
        /\ (pc[t] = "leave_finish" /\ pc'[t] = "ret") =>
                /\ resp'[t].success
                /\ req[t].peerId \notin preMembers[t] =>
                        UNCHANGED <<rooms, heap, pendingNotifications>>]_vars

\* C9: an insertion by createRoom or joinRoom of a peer that is already a member
\* leaves the key set of the room as it was, leaves the other records untouched and
\* replaces the peer's record by one whose JoinedAt and LastSeen are the two readings
\* of the clock the handler took under the lock of the room, JoinedAt first and
\* LastSeen last.
C9_RejoinRefreshesRecord ==
    [][\A t \in Threads :
        (pc[t] \in {"create_insert", "join_insert"} /\ pc'[t] # pc[t]
            /\ req[t].peerId \in Members(room[t])) =>
            LET o == room[t]
                p == req[t].peerId
            IN /\ DOMAIN heap'[o].Peers = Members(o)
               /\ heap'[o].Peers[p].PeerID = p
               /\ heap'[o].Peers[p].JoinedAt = joinedAt[t]
               /\ heap'[o].Peers[p].LastSeen = now'
               /\ \A q \in Members(o) \ {p} : heap'[o].Peers[q] = heap[o].Peers[q]]_vars

\* C9 witness: a member has been inserted again, and its record carries a JoinedAt
\* later than the start of the run.
C9_Witness ==
    \E t \in Threads :
        /\ Admitted(t)
        /\ req[t].peerId \in preMembers[t]
        /\ Has(heap[room[t]].Peers, req[t].peerId)
        /\ heap[room[t]].Peers[req[t].peerId].JoinedAt > 0
        /\ Cardinality(Members(room[t])) = Cardinality(preMembers[t])

\* C10: in every mailbox, the notifications of joins to one room stand in the order
\* in which the room applied those joins.
C10_MailboxOrderFollowsJoinOrder ==
    \A q \in DOMAIN pendingNotifications :
        \A i, j \in 1..Len(pendingNotifications[q]) :
            (i < j /\ pendingNotifications[q][i].room = pendingNotifications[q][j].room)
                => pendingNotifications[q][i].seq < pendingNotifications[q][j].seq

\* C11: getRoomPeers answers RoomNotFound, and changes nothing, when it finds the
\* code unregistered; otherwise it answers with every key and the size of the room
\* it found, leaves the registry and the key set of every room as they were, and
\* changes no record but the LastSeen of a requester that is a member, which becomes
\* the time read.
C11_PeersListsAndOnlyHeartbeats ==
    [][\A t \in Threads :
        /\ (pc[t] = "peers" /\ pc'[t] # "peers") =>
                /\ UNCHANGED <<rooms, heap, pendingNotifications>>
                /\ IF Has(rooms, req[t].roomCode)
                   THEN pc'[t] = "peers_read" /\ room'[t] = rooms[req[t].roomCode]
                   ELSE pc'[t] = "ret" /\ resp'[t] = [status |-> StatusNotFound]
        /\ (pc[t] = "peers_read" /\ pc'[t] = "ret") =>
                LET o == room[t]
                    p == req[t].peerId
                IN /\ resp'[t] = [status |-> StatusOK, peers |-> Members(o),
                                  roomSize |-> Cardinality(Members(o))]
                   /\ UNCHANGED <<rooms, pendingNotifications>>
                   /\ Len(heap') = Len(heap)
                   /\ \A x \in Objects :
                        /\ DOMAIN heap'[x].Peers = Members(x)
                        /\ \A q \in Members(x) :
                             heap'[x].Peers[q] =
                                IF x = o /\ q = p
                                THEN [heap[x].Peers[q] EXCEPT !.LastSeen = now']
                                ELSE heap[x].Peers[q]]_vars

\* C11 witness: a getRoomPeers has answered with a non-empty room that does not hold
\* its requester, and another has answered with a room that lists its requester,
\* whose record carries a LastSeen later than its JoinedAt.
C11_Witness ==
    /\ \E t \in Threads :
        /\ pc[t] = "ret" /\ req[t].op = "peers" /\ resp[t].status = StatusOK
        /\ req[t].peerId # None
        /\ resp[t].peers # {}
        /\ req[t].peerId \notin resp[t].peers
        /\ req[t].peerId \notin Members(room[t])
    /\ \E u \in Threads :
        /\ pc[u] = "ret" /\ req[u].op = "peers" /\ resp[u].status = StatusOK
        /\ req[u].peerId \in resp[u].peers
        /\ req[u].peerId \in Members(room[u])
        /\ heap[room[u]].Peers[req[u].peerId].LastSeen >
                heap[room[u]].Peers[req[u].peerId].JoinedAt

\* C12: a createRoom, joinRoom or leaveRoom request without a roomCode or without
\* a peerId takes no lock and is answered with a validation error, and neither the
\* registry, nor a room, nor the mailbox ever holds an empty code or an empty peer id.
C12_MissingFieldsRejected ==
    /\ \A t \in Threads :
        (req[t].op \in {"create", "join", "leave"}
            /\ (req[t].roomCode = None \/ req[t].peerId = None)) =>
            /\ pc[t] \in {req[t].op, "ret"}
            /\ pc[t] = "ret" => resp[t].status = StatusBadRequest
    /\ ~Has(rooms, None)
    /\ ~Has(pendingNotifications, None)
    /\ \A o \in Objects : heap[o].code # None /\ ~Has(heap[o].Peers, None)

\* C13: no queue of the candidate relay ever holds more than 100 envelopes; a
\* sendCandidate appends its envelope to the destination's queue, first dropping
\* exactly the oldest envelope if the queue already held 100, changes no other
\* queue, and answers success.
C13_RelayQueueCapped ==
    /\ [](\A q \in DOMAIN candidates : Len(candidates[q]) <= MaxCandidates)
    /\ [][\A q \in PeerIds :
            (Has(candidates', q) /\ (~Has(candidates, q) \/ candidates'[q] # candidates[q])) =>
                LET old == IF Has(candidates, q) THEN candidates[q] ELSE <<>>
                    new == candidates'[q]
                    kept == IF Len(old) = MaxCandidates THEN Tail(old) ELSE old
                IN /\ Len(new) = Len(kept) + 1
                   /\ SubSeq(new, 1, Len(kept)) = kept
                   /\ new[Len(new)].candidate = MaxCandidates + relayOps + 1
                   /\ \A x \in (DOMAIN candidates) \ {q} :
                        Has(candidates', x) /\ candidates'[x] = candidates[x]
                   /\ relayResp' = [status |-> StatusOK, success |-> TRUE]]_vars

\* C13 witness: a sendCandidate to a peer whose queue held 100 envelopes has been
\* answered with success; the queue holds 100 again, the oldest is gone, the second
\* oldest is at the head and the new envelope is at the end.
C13_Witness ==
    /\ relayResp = [status |-> StatusOK, success |-> TRUE]
    /\ \E q \in DOMAIN candidates :
        /\ Len(candidates[q]) = MaxCandidates
        /\ candidates[q][1].candidate = 2
        /\ candidates[q][MaxCandidates].candidate = MaxCandidates + relayOps

\* C14: nobody holds roomsMu, for writing or for reading, together with the lock
\* of a room.
C14_NeverBothLocks ==
    \A o \in 1..Len(roomMu) :
        roomMu[o] # None => (roomsMu.w # roomMu[o] /\ roomMu[o] \notin roomsMu.r)

\* C15: once a sweep pass has finished a room and has another one still to visit,
\* the sweeper does not hold roomsMu, so that a request can take it.
C15_SweepReleasesBetweenRooms ==
    (sweep.pc = "scan" /\ sweep.visited # {} /\ sweep.todo # {}) =>
        roomsMu.w # SweeperId

\* C16: a leaveRoom whose peer was evicted by the sweeper while the leaveRoom waited
\* for roomsMu finds the room unregistered or the peer absent and changes neither
\* the registry nor any room; the sweeper evicts only peers it finds in the room;
\* and leaveRoom and the sweeper unregister a room exactly when their removal
\* left it without a peer.
C16_LeaveAndEvictionRemoveOnce ==
    [][/\ \A t \in Threads :
            /\ (pc[t] = "leave" /\ pc'[t] = "ret" /\ removedSince[t]) =>
                    UNCHANGED <<rooms, heap>>
            /\ (pc[t] = "leave_delete" /\ pc'[t] = "leave_unlock" /\ removedSince[t]
                    /\ req[t].peerId \notin Members(room[t])) =>
                    UNCHANGED <<rooms, heap>>
            /\ (pc[t] = "leave_finish" /\ pc'[t] = "ret") =>
                    /\ (removedSince[t] /\ req[t].peerId \notin preMembers[t]) =>
                            UNCHANGED <<rooms, heap>>
                    /\ req[t].peerId \in preMembers[t] =>
                            (Has(rooms', req[t].roomCode) <=>
                                preMembers[t] \ {req[t].peerId} # {})
       /\ \A c \in RoomCodes :
            (sweep.pc = "scan" /\ c \in sweep.todo /\ c \notin sweep'.todo) =>
                /\ sweep'.evicted \ sweep.evicted =
                        {<<c, p>> : p \in Members(rooms[c]) \ DOMAIN heap'[rooms[c]].Peers}
                /\ Has(rooms', c) <=> DOMAIN heap'[rooms[c]].Peers # {}]_vars

\* C17: the pair of room count and peer total that healthHandler answers is the
\* pair of the registry's number of rooms and of its number of peer records in one
\* of the states that held while the handler had roomsMu read-locked.
C17_HealthIsASnapshot ==
    \A t \in Threads :
        (pc[t] = "ret" /\ req[t].op = "health") =>
            /\ resp[t].status = StatusOK
            /\ <<resp[t].rooms, resp[t].totalPeers>> \in hSeen[t]

\* C17 witness: a health call has answered for two registered rooms while two
\* insertions were made into them during its scan, one into a room it had counted
\* and one into a room it had not: its total is the one that held between the two
\* insertions, more than at the RLock and less than at the RUnlock.
C17_Witness ==
    \E t \in Threads :
        /\ pc[t] = "ret" /\ req[t].op = "health"
        /\ resp[t].rooms = NumCodes
        /\ Cardinality(hSeen[t]) >= 3
        /\ \E a, b \in hSeen[t] : a[2] < resp[t].totalPeers /\ resp[t].totalPeers < b[2]

\* C18: whenever a request or a sweep pass is in progress, some handler or the
\* sweep pass can take its next step; and, under fair scheduling, every request that
\* was received is eventually answered.
C18_NoDeadlockAndEveryCallReturns ==
    /\ []((\/ \E t \in Threads : pc[t] # "idle"
           \/ sweep.pc \in {"lock", "scan"})
            => ENABLED ((\E t \in Threads : Step(t)) \/ SweepStep))
    /\ \A t \in Threads : (pc[t] \notin {"idle", "ret"}) ~> (pc[t] = "ret")

\* C18 witness: a healthHandler holds roomsMu for reading while a leaveRoom and the
\* sweeper both wait for it.
C18_Witness ==
    \E t, u \in Threads :
        /\ pc[t] = "health_scan" /\ hTodo[t] # {}
        /\ pc[u] = "leave"
        /\ sweep.pc = "lock"

\* C19: no queue of the mailbox is ever empty; an entry appears only in the step of
\* a joinRoom that posts to that peer, with that one notification in it; and an
\* entry disappears only in a drain of that peer, which always leaves the peer
\* without an entry.
C19_NoEmptyQueue ==
    /\ [](\A q \in DOMAIN pendingNotifications : Len(pendingNotifications[q]) >= 1)
    /\ [][/\ \A q \in (DOMAIN pendingNotifications') \ DOMAIN pendingNotifications :
               /\ \E t \in Threads :
                   /\ pc[t] \in {"join_notify", "join_post"}
                   /\ q \in existingPeers[t] \ notified[t]
                   /\ q \in notified'[t]
                   /\ pendingNotifications'[q][1].PeerID = req[t].peerId
               /\ Len(pendingNotifications'[q]) = 1
          /\ \A q \in (DOMAIN pendingNotifications) \ DOMAIN pendingNotifications' :
               \E t \in Threads :
                   pc[t] = "notifications" /\ pc'[t] = "ret" /\ req[t].peerId = q
          /\ \A t \in Threads :
               (pc[t] = "notifications" /\ pc'[t] = "ret") =>
                   ~Has(pendingNotifications', req[t].peerId)]_vars

\* C19 witness: a joinRoom has posted the first notification of a peer, whose entry
\* holds exactly that notification, while another peer has no entry.
C19_Witness ==
    \E t \in Threads :
        /\ Admitted(t) /\ req[t].op = "join"
        /\ \E q \in existingPeers[t] :
            /\ Has(pendingNotifications, q)
            /\ Len(pendingNotifications[q]) = 1
            /\ pendingNotifications[q][1].seq = joinSeq[t]
        /\ \E x \in PeerIds : ~Has(pendingNotifications, x)

\* C20: in no step does the LastSeen of a peer that is, and stays, a member of a
\* room decrease, whichever createRoom, joinRoom or getRoomPeers writes it and
\* whatever the wall clock shows.
C20_LastSeenNeverDecreases ==
    [][\A o \in Objects : \A p \in Members(o) :
            Has(heap'[o].Peers, p) =>
                heap'[o].Peers[p].LastSeen >= heap[o].Peers[p].LastSeen]_vars

\* C21: every getRoomPeers that has answered has answered RoomNotFound, or with at
\* least one peer and a roomSize of at least 1.
C21_PeersNeverEmpty ==
    \A t \in Threads :
        (pc[t] = "ret" /\ req[t].op = "peers") =>
            \/ resp[t].status = StatusNotFound
            \/ /\ resp[t].status = StatusOK
               /\ resp[t].peers # {}
               /\ resp[t].roomSize >= 1

\* C22: no queue of the mailbox holds a peer_joined notification that names the
\* peer the queue belongs to.
C22_NoNotificationOfOwnJoin ==
    \A q \in DOMAIN pendingNotifications :
        \A i \in 1..Len(pendingNotifications[q]) :
            ~(pendingNotifications[q][i].Type = "peer_joined"
                /\ pendingNotifications[q][i].PeerID = q)

\* C23: no step of createRoom changes the mailbox, while its insertion adds the
\* requester to the room and keeps the peers the room held; and a queue gains a
\* notification only in the posting step of a joinRoom.
C23_CreateRoomNeverNotifies ==
    [][/\ \A t \in Threads :
            /\ (pc[t] \in {"create", "create_lock", "create_insert"} /\ pc'[t] # pc[t]) =>
                    UNCHANGED pendingNotifications
            /\ (pc[t] = "create_insert" /\ pc'[t] = "ret") =>
                    /\ DOMAIN heap'[room[t]].Peers = Members(room[t]) \cup {req[t].peerId}
                    /\ resp'[t].status = StatusOK
       /\ (\E q \in DOMAIN pendingNotifications' :
                \/ ~Has(pendingNotifications, q)
                \/ Len(pendingNotifications'[q]) > Len(pendingNotifications[q])) =>
            \E t \in Threads :
                pc[t] \in {"join_notify", "join_post"} /\ notified'[t] # notified[t]]_vars

\* C23 witness: a createRoom has added its peer to a room that held another peer,
\* and no peer the room held has an entry in the mailbox.
C23_Witness ==
    \E t \in Threads :
        /\ Admitted(t) /\ req[t].op = "create"
        /\ preMembers[t] # {}
        /\ req[t].peerId \notin preMembers[t]
        /\ req[t].peerId \in Members(room[t])
        /\ preMembers[t] \subseteq Members(room[t])
        /\ \A q \in preMembers[t] : ~Has(pendingNotifications, q)

====
